---- MODULE Spec2Model ----
(***************************************************************************)
(* A model of Moleskine, a browser notebook: the Whiteboard undo/redo      *)
(* snapshot stack, the Editor's debounced auto-save on top of the Storage  *)
(* module, the Auth password gate, the GitHub notebook index and the       *)
(* recent-notebooks list.  Every module of the program is a closure over   *)
(* its own variables, so each gets its own specification over its own      *)
(* group of variables; the other groups stay as Init left them.            *)
(***************************************************************************)
EXTENDS Bags, FiniteSets, Integers, Sequences, TLC

VARIABLES
    \* ---- Whiteboard (src/unnamed/part_003) ----
    canvas,         \* TRUE once init() found the canvas element (canvas !== null)
    pixels,         \* the bitmap the canvas shows
    nextPic,        \* the next bitmap never shown before (a fresh drawing)
    isDrawing,
    currentTool,
    history,        \* sequence of snapshots (data URLs); history[k+1] is JS history[k]
    historyIndex,   \* JS index into history, -1 when empty
    pendingLoads,   \* bag of Image objects whose onload has not run yet, by src
    \* ---- Storage (src/unnamed/part_004) ----
    draftsStore,    \* localStorage['moleskine_drafts']: NoItem or a JSON text
    recentStore,    \* localStorage['moleskine_recent']: NoItem or a JSON text
    \* ---- Auth (src/unnamed/part_001) ----
    sessionItem,    \* sessionStorage['moleskine_auth']: NoItem or 'true'
    hashItem,       \* localStorage['moleskine_password_hash']: NoItem or a hash
    page,           \* the document the tab shows: "index" or "app"
    navTo,          \* the document a started navigation leads to, or "none"
    appInitialised, \* TRUE once App.init ran past the gate on this page
    logins,         \* passwords of the login() calls awaiting their sha256
    authorised,     \* a login() with a matching hash completed since the last logout
    \* ---- Editor (src/js/editor.js) ----
    textareaEl,     \* TRUE once init() found the textarea (textarea !== null)
    textarea,       \* textarea.value, a sequence of characters
    currentDraftId,
    autoSaveTimer,  \* the timer id handleInput stored last, NoTimer for null
    timers,         \* ids of the saveDraft timeouts the browser still holds
    nextTimerId,    \* the id the next setTimeout returns
    notification,   \* TRUE while the 'Saved' notification is in the document
    firedSinceInput,\* timer-driven saveDraft calls since the last input event
    burstLen,       \* input events since the last one that followed a timer-driven save
    \* ---- GitHub (src/unnamed/part_001) ----
    tokenItem,      \* localStorage['moleskine_github_token']: NoItem or a token
    remoteMd,       \* ids whose notebooks/<id>.md exists in the repository
    remoteIndex,    \* notebooks/_index.json in the repository, NoFile when absent
    gh,             \* the GitHub call in flight: its position and locals
    indexBefore,    \* notebooks/_index.json as it was when that call started
    httpLog,        \* the HTTP requests that call has issued, in order
    \* ---- App (src/js/app.js) ----
    siteIndex,      \* what the site serves at notebooks/_index.json
    notebooks,      \* App's list of notebooks
    reader,         \* what #markdown-content shows
    indexFetch,     \* loadNotebooks is awaiting its fetch
    mdFetches,      \* ids whose loadNotebook is awaiting its fetch
    \* ---- shared ----
    now,            \* the clock behind Date.now() and new Date()
    lastOp,         \* the operation that ran last, with its arguments
    ops             \* number of user operations done so far (bounds the run)

wbVars == <<canvas, pixels, nextPic, isDrawing, currentTool, history, historyIndex,
            pendingLoads>>

edVars == <<textareaEl, textarea, currentDraftId, autoSaveTimer, timers, nextTimerId,
            notification, firedSinceInput, burstLen>>

authVars == <<sessionItem, hashItem, page, navTo, appInitialised, logins, authorised>>

ghVars == <<tokenItem, remoteMd, remoteIndex, gh, indexBefore, httpLog>>

appVars == <<siteIndex, notebooks, reader, indexFetch, mdFetches>>

vars ==
    <<wbVars, draftsStore, recentStore, edVars, authVars, ghVars, appVars, now,
      lastOp, ops>>

\* Everything outside the Whiteboard closure.
notWb == <<draftsStore, recentStore, edVars, authVars, ghVars, appVars, now, lastOp>>

\* Everything outside the Editor and the drafts it stores.
notEd == <<wbVars, recentStore, authVars, ghVars, appVars>>

\* Everything outside the recent-notebooks list.
notRec == <<wbVars, draftsStore, edVars, authVars, ghVars, appVars>>

\* Everything outside Auth and the page it guards.
notAuth == <<wbVars, draftsStore, recentStore, edVars, ghVars, appVars>>

\* Everything outside the GitHub module and the repository.
notGh == <<wbVars, draftsStore, recentStore, edVars, authVars, appVars>>

Min(a, b) == IF a < b THEN a ELSE b

(***************************************************************************)
(* Values at page load                                                     *)
(***************************************************************************)
\* localStorage.getItem(key) === null
NoItem == <<>>

\* currentDraftId = null
NoId == <<>>

\* autoSaveTimer = null
NoTimer == 0

\* An operation and its arguments, as lastOp records them.
Op(name, id, content, title) ==
    [op |-> name, id |-> id, content |-> content, title |-> title]

PageLoaded == Op("load", NoId, <<>>, <<>>)

\* The Editor closure before Editor.init().
EdIdle ==
    /\ textareaEl = FALSE
    /\ textarea = <<>>
    /\ currentDraftId = NoId
    /\ autoSaveTimer = NoTimer
    /\ timers = {}
    /\ nextTimerId = 1
    /\ notification = FALSE
    /\ firedSinceInput = 0
    /\ burstLen = 0

\* A file the repository does not hold.
NoFile == <<>>

\* No call of the GitHub module has been made.
NoCall ==
    [pc |-> "idle", id |-> <<>>, content |-> <<>>, title |-> <<>>, tags |-> <<>>,
     sha |-> <<>>, index |-> [notebooks |-> <<>>, tags |-> <<>>], result |-> <<>>]

\* The GitHub module with a token stored and an empty notebooks/ folder.
GhIdle ==
    /\ tokenItem = <<"token">>
    /\ remoteMd = {}
    /\ remoteIndex = NoFile
    /\ gh = NoCall
    /\ indexBefore = NoFile
    /\ httpLog = <<>>

\* The App closure before App.init(), with the page as app.html ships it.
AppIdle ==
    /\ siteIndex = NoFile
    /\ notebooks = <<>>
    /\ reader = <<"static">>
    /\ indexFetch = FALSE
    /\ mdFetches = EmptyBag

\* A new tab on index.html: nobody logged in, no password of one's own set.
AuthIdle ==
    /\ sessionItem = NoItem
    /\ hashItem = NoItem
    /\ page = "index"
    /\ navTo = "none"
    /\ appInitialised = FALSE
    /\ logins = EmptyBag
    /\ authorised = FALSE

\* The Whiteboard closure before Whiteboard.init().
WbIdle ==
    /\ canvas = FALSE
    /\ pixels = 0
    /\ nextPic = 1
    /\ isDrawing = FALSE
    /\ currentTool = "pen"
    /\ history = <<>>
    /\ historyIndex = -1
    /\ pendingLoads = EmptyBag

(***************************************************************************)
(* Whiteboard                                                              *)
(***************************************************************************)
MAX_HISTORY == 50

\* Bound: user operations in one run of the whiteboard.
MaxWbOps == 5
\* Bound: Image objects whose onload is still outstanding.
MaxPending == 2

Blank == 0

Tools == {"pen", "eraser", "line", "text"}

\* currentTool === 'pen' || currentTool === 'eraser'
IsFreehand(tool) == tool \in {"pen", "eraser"}

\* canvas.toDataURL(): the bitmap encoded as a PNG data URL.
toDataURL(bitmap) == <<"data:image/png", bitmap>>

\* What ctx.drawImage(img, 0, 0) paints for an image loaded from a data URL.
drawImage(src) == src[2]

\* history.slice(0, end)
slice(h, end) == SubSeq(h, 1, Min(end, Len(h)))

\* saveState() without the "Limit history size" step.
saveStateUnlimited(h, i, bitmap) ==
    [history |-> Append(slice(h, i + 1), toDataURL(bitmap)), historyIndex |-> i + 1]

\* saveState() without the "Remove any states after current index" step.
saveStateKeepsBranch(h, i, bitmap) ==
    LET pushed == Append(h, toDataURL(bitmap))
    IN  IF Len(pushed) > MAX_HISTORY
        THEN [history |-> Tail(pushed), historyIndex |-> (i + 1) - 1]
        ELSE [history |-> pushed, historyIndex |-> i + 1]

\* saveState() whose history.shift() is not followed by historyIndex--.
saveStateKeepsIndex(h, i, bitmap) ==
    LET pushed == Append(slice(h, i + 1), toDataURL(bitmap))
    IN  IF Len(pushed) > MAX_HISTORY
        THEN [history |-> Tail(pushed), historyIndex |-> i + 1]
        ELSE [history |-> pushed, historyIndex |-> i + 1]

\* saveState(): the new <<history, historyIndex>>.
saveState(h, i, bitmap) ==
    LET cut    == slice(h, i + 1)
        pushed == Append(cut, toDataURL(bitmap))
    IN  IF Len(pushed) > MAX_HISTORY
        THEN [history |-> Tail(pushed), historyIndex |-> (i + 1) - 1]
        ELSE [history |-> pushed, historyIndex |-> i + 1]

\* new Image(); img.src = history[historyIndex]; img.onload = ...
\* The callback runs later, from the event loop.
loadImage(pending, h, i) == pending (+) SetToBag({h[i + 1]})

\* redo() with the bound of its test off by one.
redoPastEnd(h, i, pending) ==
    IF i < Len(h)
    THEN [history |-> h, historyIndex |-> i + 1,
          pendingLoads |-> IF i + 1 < Len(h) THEN loadImage(pending, h, i + 1)
                           ELSE pending]
    ELSE [history |-> h, historyIndex |-> i, pendingLoads |-> pending]

\* undo(): what it leaves of history, historyIndex and the outstanding images.
undo(h, i, pending) ==
    IF i > 0
    THEN [history |-> h, historyIndex |-> i - 1,
          pendingLoads |-> loadImage(pending, h, i - 1)]
    ELSE [history |-> h, historyIndex |-> i, pendingLoads |-> pending]

\* redo(): what it leaves of history, historyIndex and the outstanding images.
redo(h, i, pending) ==
    IF i < Len(h) - 1
    THEN [history |-> h, historyIndex |-> i + 1,
          pendingLoads |-> loadImage(pending, h, i + 1)]
    ELSE [history |-> h, historyIndex |-> i, pendingLoads |-> pending]

\* redrawFromHistory(): returns at once when there is no snapshot.
redrawFromHistory(pending, h, i) ==
    IF i < 0 THEN pending ELSE loadImage(pending, h, i)

PendingCount(pending) == BagCardinality(pending)

\* A history of n snapshots as n - 1 pen strokes after init() leave it.
Strokes(n) == [k \in 1..n |-> toDataURL(k - 1)]

WbInit ==
    /\ EdIdle
    /\ GhIdle
    /\ AppIdle
    /\ AuthIdle
    /\ draftsStore = NoItem
    /\ recentStore = NoItem
    /\ now = 1
    /\ lastOp = PageLoaded
    /\ isDrawing = FALSE
    /\ currentTool = "pen"
    /\ pendingLoads = EmptyBag
    /\ ops = 0
    /\ \/ /\ canvas = FALSE
          /\ pixels = Blank
          /\ nextPic = 1
          /\ history = <<>>
          /\ historyIndex = -1
       \/ \E n \in {MAX_HISTORY - 1, MAX_HISTORY} :
            /\ canvas = TRUE
            /\ pixels = n - 1
            /\ nextPic = n
            /\ history = Strokes(n)
            /\ historyIndex = n - 1

\* init(): finds the canvas, sizes it (the drawing is kept), registers the
\* listeners and saves the initial state.  App.init and every
\* showView('whiteboard') call it.
WhiteboardInit ==
    /\ ops < MaxWbOps
    /\ LET s == saveState(history, historyIndex, pixels)
       IN  /\ history' = s.history
           /\ historyIndex' = s.historyIndex
    /\ canvas' = TRUE
    /\ ops' = ops + 1
    /\ UNCHANGED <<notWb, pixels, nextPic, isDrawing, currentTool, pendingLoads>>

\* setTool(tool), from a toolbar click.
SetTool(tool) ==
    /\ ops < MaxWbOps
    /\ canvas
    /\ tool # currentTool
    /\ currentTool' = tool
    /\ ops' = ops + 1
    /\ UNCHANGED <<notWb, canvas, pixels, nextPic, isDrawing, history, historyIndex,
                   pendingLoads>>

\* handleMouseDown / handleTouchStart
MouseDown ==
    /\ ops < MaxWbOps
    /\ canvas
    /\ ~isDrawing
    /\ isDrawing' = TRUE
    /\ ops' = ops + 1
    /\ UNCHANGED <<notWb, canvas, pixels, nextPic, currentTool, history, historyIndex,
                   pendingLoads>>

\* What a stroke of the tool leaves on the canvas: the pen and the shapes
\* add ink, the eraser removes some or all of it, the text tool draws
\* nothing when the prompt is cancelled.
Drawn(tool, bitmap, fresh) ==
    CASE tool = "eraser" -> IF bitmap = Blank THEN {Blank} ELSE {Blank, fresh}
      [] tool = "text"   -> {bitmap, fresh}
      [] OTHER           -> {fresh}

\* handleMouseMove / handleTouchMove
MouseMove ==
    /\ ops < MaxWbOps
    /\ canvas
    /\ isDrawing
    /\ IF IsFreehand(currentTool)
       THEN pendingLoads' = pendingLoads
       ELSE /\ PendingCount(pendingLoads) < MaxPending
            /\ pendingLoads' = redrawFromHistory(pendingLoads, history, historyIndex)
    /\ \E p \in Drawn(currentTool, pixels, nextPic) :
         /\ pixels' = p
         /\ nextPic' = IF p = nextPic THEN nextPic + 1 ELSE nextPic
    /\ ops' = ops + 1
    /\ UNCHANGED <<notWb, canvas, isDrawing, currentTool, history, historyIndex>>

\* handleMouseUp / handleTouchEnd / mouseleave
MouseUp ==
    /\ ops < MaxWbOps
    /\ canvas
    /\ isDrawing
    /\ isDrawing' = FALSE
    /\ IF IsFreehand(currentTool)
       THEN /\ pendingLoads' = pendingLoads
            /\ pixels' = pixels
            /\ nextPic' = nextPic
       ELSE /\ PendingCount(pendingLoads) < MaxPending
            /\ pendingLoads' = redrawFromHistory(pendingLoads, history, historyIndex)
            /\ \E p \in Drawn(currentTool, pixels, nextPic) :
                 /\ pixels' = p
                 /\ nextPic' = IF p = nextPic THEN nextPic + 1 ELSE nextPic
    /\ LET s == saveState(history, historyIndex, pixels')
       IN  /\ history' = s.history
           /\ historyIndex' = s.historyIndex
    /\ ops' = ops + 1
    /\ UNCHANGED <<notWb, canvas, currentTool>>

\* undo(), from the Undo button or Ctrl+Z
Undo ==
    /\ ops < MaxWbOps
    /\ historyIndex > 0
    /\ PendingCount(pendingLoads) < MaxPending
    /\ LET u == undo(history, historyIndex, pendingLoads)
       IN  /\ history' = u.history
           /\ historyIndex' = u.historyIndex
           /\ pendingLoads' = u.pendingLoads
    /\ ops' = ops + 1
    /\ UNCHANGED <<notWb, canvas, pixels, nextPic, isDrawing, currentTool>>

\* redo(), from the Redo button or Ctrl+Shift+Z
Redo ==
    /\ ops < MaxWbOps
    /\ redo(history, historyIndex, pendingLoads).historyIndex # historyIndex
    /\ PendingCount(pendingLoads) < MaxPending
    /\ LET r == redo(history, historyIndex, pendingLoads)
       IN  /\ history' = r.history
           /\ historyIndex' = r.historyIndex
           /\ pendingLoads' = r.pendingLoads
    /\ ops' = ops + 1
    /\ UNCHANGED <<notWb, canvas, pixels, nextPic, isDrawing, currentTool>>

\* clear()
Clear ==
    /\ ops < MaxWbOps
    /\ canvas
    /\ pixels' = Blank
    /\ LET s == saveState(history, historyIndex, Blank)
       IN  /\ history' = s.history
           /\ historyIndex' = s.historyIndex
    /\ ops' = ops + 1
    /\ UNCHANGED <<notWb, canvas, nextPic, isDrawing, currentTool, pendingLoads>>

\* img.onload: ctx.clearRect(...); ctx.drawImage(img, 0, 0).  The browser
\* runs the callbacks of the outstanding images in an order of its own.
ImageOnload ==
    \E src \in BagToSet(pendingLoads) :
        /\ pendingLoads' = pendingLoads (-) SetToBag({src})
        /\ pixels' = drawImage(src)
        /\ UNCHANGED <<notWb, canvas, nextPic, isDrawing, currentTool, history,
                       historyIndex, ops>>

WbNext ==
    \/ WhiteboardInit
    \/ \E tool \in Tools : SetTool(tool)
    \/ MouseDown
    \/ MouseMove
    \/ MouseUp
    \/ Undo
    \/ Redo
    \/ Clear
    \/ ImageOnload

SpecWhiteboard == WbInit /\ [][WbNext]_vars

\* The first init() of the page, before anything was drawn.
FirstInit == ~canvas /\ WhiteboardInit

\* One visit of the whiteboard: init() once, then gestures, clear, undo, redo.
WbSessionNext ==
    \/ FirstInit
    \/ \E tool \in Tools : SetTool(tool)
    \/ MouseDown
    \/ MouseMove
    \/ MouseUp
    \/ Undo
    \/ Redo
    \/ Clear
    \/ ImageOnload

SpecWhiteboardSession == WbInit /\ [][WbSessionNext]_vars

(***************************************************************************)
(* Whiteboard: the claims                                                  *)
(***************************************************************************)

\* C1: the undo history never holds more than MAX_HISTORY snapshots, whatever
\* sequence of init, gestures, clear, undo and redo has run.
HistoryBounded == Len(history) <= MAX_HISTORY

\* C1 witness: the history is full and saveState has already dropped the
\* oldest snapshot (the blank canvas of init()).
HistoryFullAfterShift ==
    /\ Len(history) = MAX_HISTORY
    /\ history[1] # toDataURL(Blank)
    /\ ops > 0

\* C2: once no gesture is in progress and every outstanding onload callback
\* has run, the canvas shows the snapshot stored at history[historyIndex].
CanvasShowsCurrentSnapshot ==
    (canvas /\ ~isDrawing /\ pendingLoads = EmptyBag /\ historyIndex >= 0)
        => toDataURL(pixels) = history[historyIndex + 1]

\* C3: undo and redo are inverse on historyIndex and leave history alone:
\* undo then redo from an index > 0, redo then undo from an index below the
\* last, and undo at index 0 and redo at the last index change nothing.
UndoRedoInverse ==
    LET u  == undo(history, historyIndex, pendingLoads)
        r  == redo(history, historyIndex, pendingLoads)
        ur == redo(u.history, u.historyIndex, u.pendingLoads)
        ru == undo(r.history, r.historyIndex, r.pendingLoads)
    IN  /\ historyIndex > 0 =>
            /\ u.historyIndex = historyIndex - 1
            /\ ur.historyIndex = historyIndex
            /\ ur.history = history
        /\ historyIndex < Len(history) - 1 =>
            /\ r.historyIndex = historyIndex + 1
            /\ ru.historyIndex = historyIndex
            /\ ru.history = history
        /\ historyIndex = 0 =>
            /\ u.historyIndex = historyIndex
            /\ u.history = history
        /\ historyIndex = Len(history) - 1 =>
            /\ r.historyIndex = historyIndex
            /\ r.history = history

\* C3 witness: an undo immediately followed by a redo has run on a full
\* history and the index is back at the last snapshot.
UndoneThenRedone ==
    /\ ops = 2
    /\ PendingCount(pendingLoads) = 2
    /\ Len(history) = MAX_HISTORY
    /\ historyIndex = Len(history) - 1
    /\ BagIn(history[historyIndex], pendingLoads)
    /\ BagIn(history[historyIndex + 1], pendingLoads)

\* C17: recording a new state discards the redo branch.  Right after every
\* saveState (init(), the end of a gesture, clear()) the snapshots below the
\* new one are those up to the old index (less the oldest when the history
\* was full), the new snapshot is last, historyIndex = history.length - 1,
\* and redo changes nothing.
SaveStateDiscardsRedo ==
    [][(WhiteboardInit \/ MouseUp \/ Clear) =>
        LET kept == SubSeq(history', 1, Len(history') - 1)
            base == SubSeq(history, 1, historyIndex + 1)
            r    == redo(history', historyIndex', pendingLoads')
        IN  /\ historyIndex' = Len(history') - 1
            /\ kept = base \/ kept = Tail(base)
            /\ history'[Len(history')] = toDataURL(pixels')
            /\ r.historyIndex = historyIndex'
            /\ r.history = history'
            /\ r.pendingLoads = pendingLoads']_vars

\* C17 witness: after one undo on a history of MAX_HISTORY - 1 snapshots,
\* clear() has recorded the blank canvas in place of the undone snapshot,
\* which is no longer in the history.
RedoBranchDiscarded ==
    /\ ops = 2
    /\ Len(history) = MAX_HISTORY - 1
    /\ historyIndex = Len(history) - 1
    /\ history[Len(history)] = toDataURL(Blank)
    /\ \A k \in DOMAIN history : history[k] # toDataURL(MAX_HISTORY - 2)
    /\ ~(historyIndex < Len(history) - 1)

\* How many of n consecutive calls of undo() change historyIndex.
RECURSIVE EffectiveUndos(_, _, _, _)
EffectiveUndos(h, i, pending, n) ==
    IF n = 0 THEN 0
    ELSE LET u == undo(h, i, pending)
         IN  (IF u.historyIndex # i THEN 1 ELSE 0)
                 + EffectiveUndos(u.history, u.historyIndex, u.pendingLoads, n - 1)

\* C18: on a full history with historyIndex at the last snapshot, saveState
\* drops exactly the oldest snapshot, keeps the other MAX_HISTORY - 1 in their
\* order, appends the new one last and leaves historyIndex at
\* MAX_HISTORY - 1; and of any run of consecutive undos at most
\* MAX_HISTORY - 1 take effect.
FullHistoryShifts ==
    /\ [][((WhiteboardInit \/ MouseUp \/ Clear) /\ Len(history) = MAX_HISTORY
                      /\ historyIndex = MAX_HISTORY - 1) =>
            /\ Len(history') = MAX_HISTORY
            /\ SubSeq(history', 1, MAX_HISTORY - 1) = SubSeq(history, 2, MAX_HISTORY)
            /\ history'[MAX_HISTORY] = toDataURL(pixels')
            /\ historyIndex' = MAX_HISTORY - 1]_vars
    /\ [](EffectiveUndos(history, historyIndex, pendingLoads, MAX_HISTORY + 1)
              <= MAX_HISTORY - 1)

\* C18 witness: saveState has run once on the full history of MAX_HISTORY
\* strokes; the blank canvas of init() is gone, the other snapshots have
\* moved down by one, and MAX_HISTORY - 1 undos would now take effect.
OldestDropped ==
    /\ ops = 1
    /\ Len(history) = MAX_HISTORY
    /\ historyIndex = MAX_HISTORY - 1
    /\ SubSeq(history, 1, MAX_HISTORY - 1) = Tail(Strokes(MAX_HISTORY))
    /\ history[MAX_HISTORY] = toDataURL(pixels)
    /\ EffectiveUndos(history, historyIndex, pendingLoads, MAX_HISTORY + 1)
           = MAX_HISTORY - 1

(***************************************************************************)
(* Storage: drafts in localStorage                                         *)
(***************************************************************************)
\* Bound: the clock stops advancing here.
MaxClock == 2
\* Bound: Storage calls in one run.
MaxStorageOps == 3

\* A JavaScript object is modelled by its own properties in insertion order,
\* each a record [key, val]; JSON.stringify writes them in that order.
HasKey(obj, k) == \E i \in 1..Len(obj) : obj[i].key = k

\* obj[k] of an own property
Get(obj, k) == obj[CHOOSE i \in 1..Len(obj) : obj[i].key = k].val

\* obj[k] = v
Put(obj, k, v) ==
    IF HasKey(obj, k)
    THEN [i \in 1..Len(obj) |-> IF obj[i].key = k THEN [key |-> k, val |-> v] ELSE obj[i]]
    ELSE Append(obj, [key |-> k, val |-> v])

KeepOthers(obj, k) == SelectSeq(obj, LAMBDA e : e.key # k)

\* delete obj[k]
Delete(obj, k) == KeepOthers(obj, k)

\* Object.keys(obj)
Keys(obj) == [i \in 1..Len(obj) |-> obj[i].key]

JSONstringify(value) == <<"json", value>>

JSONparse(text) == text[2]

\* new Date().toISOString() at clock value t
toISOString(t) == <<"iso", t>>

\* new Date(iso).getTime()
getTime(iso) == iso[2]

\* getDrafts(): JSON.parse(null) is null, and null || {} is {}.
getDrafts(store) == IF store = NoItem THEN <<>> ELSE JSONparse(store)

\* Storage.saveDraft writing the new draft over the whole drafts object.
StorageSaveDraftAlone(store, id, content, title, t) ==
    JSONstringify(<<[key |-> id,
                     val |-> [content |-> content, title |-> title,
                              updatedAt |-> toISOString(t)]]>>)

\* Storage.saveDraft(id, content, title): the new stored text.
StorageSaveDraft(store, id, content, title, t) ==
    JSONstringify(Put(getDrafts(store), id,
                      [content |-> content, title |-> title,
                       updatedAt |-> toISOString(t)]))

\* getDraft's null
NoDraft == <<>>

\* Storage.getDraft(id): drafts[id] || null
getDraft(store, id) ==
    LET drafts == getDrafts(store)
    IN  IF HasKey(drafts, id) THEN Get(drafts, id) ELSE NoDraft

\* Storage.deleteDraft(id): the new stored text.
StorageDeleteDraft(store, id) == JSONstringify(Delete(getDrafts(store), id))

\* Draft ids as the editor makes them: 'draft_' + Date.now()
DraftId(t) == <<"draft_", t>>

DraftIds == {DraftId(0), DraftId(1), DraftId(2)}

\* Characters of the modelled texts (single-line texts).
Whitespace == {" "}

DraftContents == {<<>>, <<"#", " ", "b">>}

DraftTitles == {<<"U", "n", "t", "i", "t", "l", "e", "d">>, <<"b">>}

\* The drafts one earlier visit can have left: none, or one draft.
EarlierDrafts ==
    {NoItem,
     StorageSaveDraft(NoItem, DraftId(0), <<"a">>, <<"a">>, 0)}

\* The clock advances between events.
Tick ==
    /\ now < MaxClock
    /\ now' = now + 1
    /\ lastOp' = Op("tick", NoId, <<>>, <<>>)
    /\ UNCHANGED <<notEd, draftsStore, edVars, ops>>

DraftsInit ==
    /\ WbIdle
    /\ EdIdle
    /\ GhIdle
    /\ AppIdle
    /\ AuthIdle
    /\ recentStore = NoItem
    /\ draftsStore \in EarlierDrafts
    /\ now = 1
    /\ lastOp = PageLoaded
    /\ ops = 0

\* Storage.saveDraft(id, content, title)
CallSaveDraft(id, content, title) ==
    /\ ops < MaxStorageOps
    /\ draftsStore' = StorageSaveDraft(draftsStore, id, content, title, now)
    /\ lastOp' = Op("saveDraft", id, content, title)
    /\ ops' = ops + 1
    /\ UNCHANGED <<notEd, edVars, now>>

\* Storage.deleteDraft(id)
CallDeleteDraft(id) ==
    /\ ops < MaxStorageOps
    /\ draftsStore' = StorageDeleteDraft(draftsStore, id)
    /\ lastOp' = Op("deleteDraft", id, <<>>, <<>>)
    /\ ops' = ops + 1
    /\ UNCHANGED <<notEd, edVars, now>>

\* Storage.clearAll(): localStorage.removeItem(DRAFTS_KEY)
CallClearAll ==
    /\ ops < MaxStorageOps
    /\ draftsStore' = NoItem
    /\ lastOp' = Op("clearAll", NoId, <<>>, <<>>)
    /\ ops' = ops + 1
    /\ UNCHANGED <<notEd, edVars, now>>

DraftsNext ==
    \/ \E id \in DraftIds, content \in DraftContents, title \in DraftTitles :
         CallSaveDraft(id, content, title)
    \/ \E id \in DraftIds : CallDeleteDraft(id)
    \/ CallClearAll
    \/ Tick

SpecDrafts == DraftsInit /\ [][DraftsNext]_vars

\* C10: after Storage.saveDraft(id, content, title), getDraft(id) returns that
\* content and title and the draft under every other id is as before; after
\* Storage.deleteDraft(id), getDraft(id) is null and every other draft is as
\* before.
DraftRoundTrip ==
    [][/\ lastOp'.op = "saveDraft" =>
            /\ getDraft(draftsStore', lastOp'.id) # NoDraft
            /\ getDraft(draftsStore', lastOp'.id).content = lastOp'.content
            /\ getDraft(draftsStore', lastOp'.id).title = lastOp'.title
            /\ \A other \in DraftIds \ {lastOp'.id} :
                 getDraft(draftsStore', other) = getDraft(draftsStore, other)
       /\ lastOp'.op = "deleteDraft" =>
            /\ getDraft(draftsStore', lastOp'.id) = NoDraft
            /\ \A other \in DraftIds \ {lastOp'.id} :
                 getDraft(draftsStore', other) = getDraft(draftsStore, other)
      ]_vars

\* C10 witness: a draft was just saved under one id while a draft saved
\* earlier under another id, with another content, is still stored.
SavedBesideAnother ==
    /\ lastOp.op = "saveDraft"
    /\ getDraft(draftsStore, lastOp.id) # NoDraft
    /\ \E other \in DraftIds \ {lastOp.id} :
         /\ getDraft(draftsStore, other) # NoDraft
         /\ getDraft(draftsStore, other).content # lastOp.content

(***************************************************************************)
(* Editor: debounced auto-save of the draft                                *)
(***************************************************************************)
\* Bound: user operations in one run of the editor.
MaxEdOps == 4

\* .slice(0, 50) of extractTitle
TitleMax == 50

RECURSIVE trimStart(_)
trimStart(s) ==
    IF s # <<>> /\ Head(s) \in Whitespace THEN trimStart(Tail(s)) ELSE s

RECURSIVE trimEnd(_)
trimEnd(s) ==
    IF s # <<>> /\ s[Len(s)] \in Whitespace
    THEN trimEnd(SubSeq(s, 1, Len(s) - 1))
    ELSE s

\* String.prototype.trim
trim(s) == trimEnd(trimStart(s))

RECURSIVE stripHashes(_)
stripHashes(s) == IF s # <<>> /\ Head(s) = "#" THEN stripHashes(Tail(s)) ELSE s

Untitled == <<"U", "n", "t", "i", "t", "l", "e", "d">>

\* Markdown.extractTitle on a single-line text: the first h1 (/^#\s+(.+)$/m),
\* else the first non-blank line without its leading #s, else 'Untitled'.
extractTitle(markdown) ==
    IF Len(markdown) >= 3 /\ markdown[1] = "#" /\ markdown[2] \in Whitespace
    THEN trim(SubSeq(markdown, 3, Len(markdown)))
    ELSE IF trim(markdown) # <<>>
         THEN slice(trim(trimStart(stripHashes(markdown))), TitleMax)
         ELSE Untitled

\* Editor.saveDraft() keeping the new draft id in a local variable only.
saveDraftForgetsId(el, content, draftId, store, t) ==
    IF ~el \/ trim(content) = <<>>
    THEN [currentDraftId |-> draftId, draftsStore |-> store]
    ELSE [currentDraftId |-> draftId,
          draftsStore |-> StorageSaveDraft(store,
                              IF draftId = NoId THEN DraftId(t) ELSE draftId,
                              content, extractTitle(content), t)]

\* Editor.saveDraft(): what it leaves of currentDraftId and the stored drafts.
saveDraft(el, content, draftId, store, t) ==
    IF ~el THEN [currentDraftId |-> draftId, draftsStore |-> store]
    ELSE IF trim(content) = <<>>
    THEN [currentDraftId |-> draftId, draftsStore |-> store]
    ELSE LET id == IF draftId = NoId THEN DraftId(t) ELSE draftId
         IN  [currentDraftId |-> id,
              draftsStore |-> StorageSaveDraft(store, id, content,
                                               extractTitle(content), t)]

\* handleInput() without the clearTimeout of the timer scheduled before.
handleInputNoClear(timer, pending, next) ==
    [autoSaveTimer |-> next, timers |-> pending \cup {next}, nextTimerId |-> next + 1]

\* handleInput(): clearTimeout(autoSaveTimer) when set, then
\* autoSaveTimer = setTimeout(saveDraft, AUTO_SAVE_DELAY).
handleInput(timer, pending, next) ==
    LET cleared == IF timer # NoTimer THEN pending \ {timer} ELSE pending
    IN  [autoSaveTimer |-> next, timers |-> cleared \cup {next},
         nextTimerId |-> next + 1]

\* The index in Object.keys order of the draft loadLastDraft picks: the
\* largest updatedAt, the first of them on a tie (the sort is stable).
MostRecent(drafts) ==
    CHOOSE i \in 1..Len(drafts) :
        /\ \A j \in 1..Len(drafts) :
             getTime(drafts[j].val.updatedAt) <= getTime(drafts[i].val.updatedAt)
        /\ \A j \in 1..(i - 1) :
             getTime(drafts[j].val.updatedAt) < getTime(drafts[i].val.updatedAt)

\* Texts the user can leave in the textarea.
EditorContents == {<<>>, <<" ">>, <<"a">>, <<"#", " ", "b">>}

EdInit ==
    /\ WbIdle
    /\ EdIdle
    /\ GhIdle
    /\ AppIdle
    /\ AuthIdle
    /\ recentStore = NoItem
    /\ draftsStore \in EarlierDrafts
    /\ now = 1
    /\ lastOp = PageLoaded
    /\ ops = 0

\* Editor.init(): finds the textarea, registers the listeners and loads the
\* most recent draft (loadLastDraft, loadDraft).
EditorInit ==
    /\ ~textareaEl
    /\ textareaEl' = TRUE
    /\ LET drafts == getDrafts(draftsStore)
       IN  IF Len(drafts) > 0
           THEN /\ currentDraftId' = Keys(drafts)[MostRecent(drafts)]
                /\ textarea' = getDraft(draftsStore, currentDraftId').content
           ELSE UNCHANGED <<currentDraftId, textarea>>
    /\ lastOp' = Op("init", NoId, <<>>, <<>>)
    /\ UNCHANGED <<notEd, draftsStore, autoSaveTimer, timers, nextTimerId,
                   notification, firedSinceInput, burstLen, now, ops>>

\* An 'input' event: the user's edit left `content` in the textarea, then
\* handleInput ran.  (Tab and the toolbar reach handleInput by insertText.)
Input(content) ==
    /\ ops < MaxEdOps
    /\ textareaEl
    /\ content # textarea
    /\ textarea' = content
    /\ LET h == handleInput(autoSaveTimer, timers, nextTimerId)
       IN  /\ autoSaveTimer' = h.autoSaveTimer
           /\ timers' = h.timers
           /\ nextTimerId' = h.nextTimerId
    /\ firedSinceInput' = 0
    /\ burstLen' = IF timers = {} THEN 1 ELSE burstLen + 1
    /\ lastOp' = Op("input", NoId, content, <<>>)
    /\ ops' = ops + 1
    /\ UNCHANGED <<notEd, draftsStore, textareaEl, currentDraftId, notification, now>>

\* The auto-save timeout runs saveDraft.
AutoSaveTimerFires ==
    \E t \in timers :
        /\ timers' = timers \ {t}
        /\ LET d == saveDraft(textareaEl, textarea, currentDraftId, draftsStore, now)
           IN  /\ currentDraftId' = d.currentDraftId
               /\ draftsStore' = d.draftsStore
        /\ firedSinceInput' = firedSinceInput + 1
        /\ lastOp' = Op("timer", NoId, <<>>, <<>>)
        /\ UNCHANGED <<notEd, textareaEl, textarea, autoSaveTimer, nextTimerId,
                       notification, burstLen, now, ops>>

\* handleKeydown for Ctrl+S / Cmd+S: saveDraft(); showSaveNotification().
CtrlS ==
    /\ ops < MaxEdOps
    /\ textareaEl
    /\ LET d == saveDraft(textareaEl, textarea, currentDraftId, draftsStore, now)
       IN  /\ currentDraftId' = d.currentDraftId
           /\ draftsStore' = d.draftsStore
    /\ notification' = TRUE
    /\ lastOp' = Op("ctrlS", NoId, <<>>, <<>>)
    /\ ops' = ops + 1
    /\ UNCHANGED <<notEd, textareaEl, textarea, autoSaveTimer, timers, nextTimerId,
                   firedSinceInput, burstLen, now>>

\* setTimeout(() => notification.remove(), 2000)
NotificationRemoved ==
    /\ notification
    /\ notification' = FALSE
    /\ lastOp' = Op("notificationRemoved", NoId, <<>>, <<>>)
    /\ UNCHANGED <<notEd, draftsStore, textareaEl, textarea, currentDraftId,
                   autoSaveTimer, timers, nextTimerId, firedSinceInput, burstLen, now, ops>>

\* Editor.newDraft(), the New button
NewDraft ==
    /\ ops < MaxEdOps
    /\ textareaEl
    /\ currentDraftId' = NoId
    /\ textarea' = <<>>
    /\ lastOp' = Op("newDraft", NoId, <<>>, <<>>)
    /\ ops' = ops + 1
    /\ UNCHANGED <<notEd, draftsStore, textareaEl, autoSaveTimer, timers,
                   nextTimerId, notification, firedSinceInput, burstLen, now>>

EdNext ==
    \/ EditorInit
    \/ \E content \in EditorContents : Input(content)
    \/ AutoSaveTimerFires
    \/ CtrlS
    \/ NotificationRemoved
    \/ NewDraft
    \/ Tick

\* The event loop runs a timeout once its delay has passed.
SpecEditor ==
    /\ EdInit
    /\ [][EdNext]_vars
    /\ WF_vars(AutoSaveTimerFires)

(***************************************************************************)
(* Editor: the claims                                                      *)
(***************************************************************************)
\* The textarea holds at least one character that is not white space.
HasText(content) == \E i \in 1..Len(content) : content[i] \notin Whitespace

\* Local storage holds a draft under the editor's current draft id whose
\* content is the textarea's.
StoredForCurrentDraft ==
    /\ currentDraftId # NoId
    /\ getDraft(draftsStore, currentDraftId) # NoDraft
    /\ getDraft(draftsStore, currentDraftId).content = textarea

\* C4 as stated: right after the auto-save timer has fired, the draft stored
\* under the current draft id has the textarea's content.
AutoSaveStoresTextarea == lastOp.op = "timer" => StoredForCurrentDraft

\* C4, amended: a scheduled auto-save timer eventually fires, and right after
\* it has fired, when the textarea holds more than white space, the draft
\* stored under the current draft id has the textarea's content.
AutoSaveStoresText ==
    /\ [](lastOp.op = "timer" /\ HasText(textarea) => StoredForCurrentDraft)
    /\ [](timers # {} => <>(lastOp.op = "timer"))

\* C4 witness: the timer fired after an input and stored the text.
AutoSaved ==
    /\ lastOp.op = "timer"
    /\ firedSinceInput = 1
    /\ HasText(textarea)
    /\ StoredForCurrentDraft

\* C5: right after Ctrl+S was handled and 'Saved' is shown, local storage
\* holds a draft under the current draft id with the textarea's content,
\* whatever the textarea holds.
CtrlSStoresTextarea ==
    (lastOp.op = "ctrlS" /\ notification) => StoredForCurrentDraft

\* C6: auto-save is debounced.  At most one auto-save timer is pending and it
\* is the one handleInput stored last; an input event cancels the timer that
\* was pending and leaves exactly one; after the last input of a burst the
\* timer runs saveDraft exactly once.
Debounced ==
    /\ [](/\ Cardinality(timers) <= 1
          /\ timers \subseteq {autoSaveTimer}
          /\ firedSinceInput <= 1
          /\ timers # {} => firedSinceInput = 0)
    /\ [][lastOp'.op = "input" =>
            /\ timers' \cap timers = {}
            /\ Cardinality(timers') = 1]_vars
    /\ [](lastOp.op = "input" => <>(firedSinceInput = 1 /\ timers = {}))

\* C6 witness: a burst of at least two input events was followed by a single
\* timer-driven save.
BurstSavedOnce ==
    /\ burstLen >= 2
    /\ firedSinceInput = 1
    /\ timers = {}
    /\ lastOp.op = "timer"

(***************************************************************************)
(* Storage: the recent-notebooks list                                      *)
(***************************************************************************)
\* recent.slice(0, 10)
RecentMax == 10

\* Bound: addToRecent calls in one run.
MaxRecentOps == 3

\* getRecent(): JSON.parse(null) is null, and null || [] is [].
getRecent(store) == IF store = NoItem THEN <<>> ELSE JSONparse(store)

\* recent.unshift(entry)
unshift(seq, entry) == <<entry>> \o seq

\* addToRecent without the "Remove if already exists" filter.
addToRecentNoFilter(store, notebook, t) ==
    JSONstringify(slice(unshift(getRecent(store),
                                [id |-> notebook.id, title |-> notebook.title,
                                 accessedAt |-> toISOString(t)]),
                        RecentMax))

\* Storage.addToRecent(notebook): the new stored text.
addToRecent(store, notebook, t) ==
    LET kept == SelectSeq(getRecent(store), LAMBDA r : r.id # notebook.id)
        entry == [id |-> notebook.id, title |-> notebook.title,
                  accessedAt |-> toISOString(t)]
    IN  JSONstringify(slice(unshift(kept, entry), RecentMax))

\* A notebook of the index, as App.loadNotebook passes it.
Notebook(k, title) == [id |-> <<"nb", k>>, title |-> title]

\* The notebooks the user opens.
OpenedNotebooks ==
    {Notebook(k, title) : k \in {1, 2, RecentMax, RecentMax + 1},
                          title \in {<<"T">>, <<"U">>}}

\* The list after notebooks 1..n were opened in turn at clock 0.
Visited(n) ==
    [k \in 1..n |-> [id |-> <<"nb", n + 1 - k>>, title |-> <<"T">>,
                     accessedAt |-> toISOString(0)]]

RecentInit ==
    /\ WbIdle
    /\ EdIdle
    /\ GhIdle
    /\ AppIdle
    /\ AuthIdle
    /\ draftsStore = NoItem
    /\ recentStore \in {NoItem, JSONstringify(Visited(RecentMax - 1)),
                        JSONstringify(Visited(RecentMax))}
    /\ now = 1
    /\ lastOp = PageLoaded
    /\ ops = 0

\* Storage.addToRecent(notebook), from App.loadNotebook
CallAddToRecent(notebook) ==
    /\ ops < MaxRecentOps
    /\ recentStore' = addToRecent(recentStore, notebook, now)
    /\ lastOp' = Op("addToRecent", notebook.id, <<>>, notebook.title)
    /\ ops' = ops + 1
    /\ UNCHANGED <<notRec, now>>

RecentNext ==
    \/ \E notebook \in OpenedNotebooks : CallAddToRecent(notebook)
    \/ Tick

SpecRecent == RecentInit /\ [][RecentNext]_vars

\* C9: the stored recent list has at most 10 entries, no two with the same
\* id; right after addToRecent(notebook) that notebook is at index 0, and the
\* entries after it are entries of the list before the call, in the order
\* they had there.
RecentBoundedDistinct ==
    /\ [](LET recent == getRecent(recentStore)
          IN  /\ Len(recent) <= RecentMax
              /\ \A i, j \in 1..Len(recent) :
                   i # j => recent[i].id # recent[j].id
              /\ lastOp.op = "addToRecent" =>
                   /\ Len(recent) >= 1
                   /\ recent[1].id = lastOp.id
                   /\ recent[1].title = lastOp.title)
    /\ [][lastOp'.op = "addToRecent" =>
            LET old == getRecent(recentStore)
                new == getRecent(recentStore')
            IN  /\ \A i \in 2..Len(new) : \E a \in 1..Len(old) : old[a] = new[i]
                /\ \A i, j \in 2..Len(new) :
                     i < j =>
                       \E a, b \in 1..Len(old) :
                           /\ a < b
                           /\ old[a] = new[i]
                           /\ old[b] = new[j]]_vars

\* C9 witness: a notebook already in a full list was opened again with the
\* list staying full, and an entry was pushed out by a new notebook before.
ReopenedInFullList ==
    /\ lastOp.op = "addToRecent"
    /\ ops >= 2
    /\ Len(getRecent(recentStore)) = RecentMax
    /\ getRecent(recentStore)[1].id = <<"nb", 2>>
    /\ getRecent(recentStore)[2].id = <<"nb", RecentMax + 1>>

(***************************************************************************)
(* Auth: the password gate in front of App.init                            *)
(***************************************************************************)
\* Bound: user operations in one run of the gate.
MaxAuthOps == 4
\* Bound: login() calls awaiting their hash at one time.
MaxLogins == 2

\* sha256(message): the digest, taken to be free of collisions.
sha256(message) == <<"sha256", message>>

\* DEFAULT_PASSWORD_HASH, by its comment the SHA-256 of 'moleskine'
DEFAULT_PASSWORD_HASH == sha256(<<"moleskine">>)

\* Passwords typed into the form (the handler rejects the empty one).
Passwords == {<<"moleskine">>, <<"secret">>, <<"guess">>}

\* sessionStorage.setItem(SESSION_KEY, 'true')
SessionTrue == <<"true">>

\* getPasswordHash(): localStorage.getItem(HASH_KEY) || DEFAULT_PASSWORD_HASH
getPasswordHash(item) == IF item = NoItem THEN DEFAULT_PASSWORD_HASH ELSE item

\* isAuthenticated()
isAuthenticated(session) == session = SessionTrue

\* requireAuth(): its return value (it also redirects when false).
requireAuth(session) == isAuthenticated(session)

\* login() setting the session flag without comparing the hashes.
loginUnchecked(password, session, item) ==
    [sessionItem |-> SessionTrue, result |-> TRUE]

\* login(password), once its sha256 has resolved: the session item it leaves
\* and the value it returns.
login(password, session, item) ==
    IF sha256(password) = getPasswordHash(item)
    THEN [sessionItem |-> SessionTrue, result |-> TRUE]
    ELSE [sessionItem |-> session, result |-> FALSE]

\* logout() leaving the session item in place.
logoutKeepsSession(session) == session

\* logout(): sessionStorage.removeItem(SESSION_KEY), the session item after.
logout(session) == NoItem

AuthInit ==
    /\ WbIdle
    /\ EdIdle
    /\ GhIdle
    /\ AppIdle
    /\ draftsStore = NoItem
    /\ recentStore = NoItem
    /\ sessionItem = NoItem
    /\ hashItem \in {NoItem, sha256(<<"secret">>)}
    /\ page = "index"
    /\ navTo = "none"
    /\ appInitialised = FALSE
    /\ logins = EmptyBag
    /\ authorised = FALSE
    /\ now = 1
    /\ lastOp = PageLoaded
    /\ ops = 0

\* The submit handler of the form on index.html calls login(password), which
\* first awaits sha256(password).
SubmitLogin(password) ==
    /\ ops < MaxAuthOps
    /\ page = "index"
    /\ BagCardinality(logins) < MaxLogins
    /\ logins' = logins (+) SetToBag({password})
    /\ lastOp' = Op("submit", NoId, password, <<>>)
    /\ ops' = ops + 1
    /\ UNCHANGED <<notAuth, sessionItem, hashItem, page, navTo, appInitialised,
                   authorised, now>>

\* The rest of login() and of the submit handler after the await: on success
\* window.location.href = 'app.html'.
LoginCompletes ==
    \E password \in BagToSet(logins) :
        LET r == login(password, sessionItem, hashItem)
        IN  /\ logins' = logins (-) SetToBag({password})
            /\ sessionItem' = r.sessionItem
            /\ navTo' = IF r.result THEN "app" ELSE navTo
            /\ authorised' = (authorised \/ sha256(password) = getPasswordHash(hashItem))
            /\ lastOp' = Op(IF r.result THEN "loginOk" ELSE "loginFailed",
                            NoId, password, <<>>)
            /\ UNCHANGED <<notAuth, hashItem, page, appInitialised, now, ops>>

\* Auth.logout(), from the logout button App.init registered.
Logout ==
    /\ ops < MaxAuthOps
    /\ appInitialised
    /\ sessionItem' = logout(sessionItem)
    /\ navTo' = "index"
    /\ authorised' = FALSE
    /\ lastOp' = Op("logout", NoId, <<>>, <<>>)
    /\ ops' = ops + 1
    /\ UNCHANGED <<notAuth, hashItem, page, appInitialised, logins, now>>

\* Auth.setPassword(newPassword)
SetPassword(password) ==
    /\ ops < MaxAuthOps
    /\ hashItem' = sha256(password)
    /\ lastOp' = Op("setPassword", NoId, password, <<>>)
    /\ ops' = ops + 1
    /\ UNCHANGED <<notAuth, sessionItem, page, navTo, appInitialised, logins,
                   authorised, now>>

\* The user opens app.html or index.html by its address.
Navigate(target) ==
    /\ ops < MaxAuthOps
    /\ navTo = "none"
    /\ navTo' = target
    /\ lastOp' = Op("navigate", NoId, <<>>, <<>>)
    /\ ops' = ops + 1
    /\ UNCHANGED <<notAuth, sessionItem, hashItem, page, appInitialised, logins,
                   authorised, now>>

\* The navigation completes: the old document and its pending callbacks are
\* gone and the scripts of the new one run.  app.html runs App.init, which
\* returns at once unless requireAuth(); index.html runs initAuthForm, which
\* redirects to app.html when already authenticated.
PageLoads ==
    /\ navTo # "none"
    /\ page' = navTo
    /\ logins' = EmptyBag
    /\ IF navTo = "app"
       THEN /\ appInitialised' = requireAuth(sessionItem)
            /\ navTo' = IF requireAuth(sessionItem) THEN "none" ELSE "index"
       ELSE /\ appInitialised' = FALSE
            /\ navTo' = IF isAuthenticated(sessionItem) THEN "app" ELSE "none"
    /\ lastOp' = Op("pageLoad", NoId, <<>>, <<>>)
    /\ UNCHANGED <<notAuth, sessionItem, hashItem, authorised, now, ops>>

AuthNext ==
    \/ \E password \in Passwords : SubmitLogin(password)
    \/ LoginCompletes
    \/ Logout
    \/ \E password \in Passwords : SetPassword(password)
    \/ \E target \in {"index", "app"} : Navigate(target)
    \/ PageLoads

SpecAuth == AuthInit /\ [][AuthNext]_vars

\* C7: App.init gets past the gate only in a state where the session flag is
\* set, and the session flag is set only when a login(password) whose hash
\* equals the stored hash (the default hash when none is stored) has
\* completed since the last logout.
PasswordGate ==
    /\ [][(~appInitialised /\ appInitialised') => isAuthenticated(sessionItem)]_vars
    /\ [](isAuthenticated(sessionItem) => authorised)
    /\ [][(~isAuthenticated(sessionItem) /\ isAuthenticated(sessionItem')) =>
            /\ lastOp'.op = "loginOk"
            /\ sha256(lastOp'.content) = getPasswordHash(hashItem)]_vars

\* C7 witness: App.init ran past the gate after a login against a stored
\* password hash.
AppInitialisedAfterLogin ==
    /\ appInitialised
    /\ page = "app"
    /\ hashItem # NoItem
    /\ isAuthenticated(sessionItem)
    /\ authorised

\* C11: right after Auth.logout, isAuthenticated() and requireAuth() are
\* false; the session flag goes from unset to set only in the step where a
\* login(password) whose hash equals the stored hash completes; a failed
\* login leaves the session item as it was, set or unset.
LogoutEndsSession ==
    /\ [](lastOp.op = "logout" =>
            /\ ~isAuthenticated(sessionItem)
            /\ ~requireAuth(sessionItem))
    /\ [][(~isAuthenticated(sessionItem) /\ isAuthenticated(sessionItem')) =>
            /\ lastOp'.op = "loginOk"
            /\ sha256(lastOp'.content) = getPasswordHash(hashItem')]_vars
    /\ [][lastOp'.op = "loginFailed" => sessionItem' = sessionItem]_vars

\* C11 witness: the user logged out of the initialised app, and the redirect
\* to index.html is under way with the session flag gone.
LoggedOut ==
    /\ lastOp.op = "logout"
    /\ appInitialised
    /\ navTo = "index"
    /\ ~isAuthenticated(sessionItem)
    /\ ~authorised

(***************************************************************************)
(* GitHub: notebooks/<id>.md and notebooks/_index.json in the repository   *)
(*                                                                         *)
(* A string is the sequence of its code points.  A file in the repository  *)
(* is the sequence of its bytes; a JSON file is <<"json", value>> with the *)
(* strings of the value as byte sequences.                                 *)
(***************************************************************************)
\* Bound: saveNotebook / createNotebook / setToken calls in one run.
MaxGhOps == 2

\* Clock values in one calendar day: toISOString().split('T')[0] keeps the day.
TicksPerDay == 2

\* .substring(0, 50) of a slug
SlugMax == 50

\* unescape(encodeURIComponent(c)): the UTF-8 bytes of one code point.
utf8Char(c) ==
    IF c < 128 THEN <<c>>
    ELSE IF c < 2048 THEN <<192 + (c \div 64), 128 + (c % 64)>>
    ELSE <<224 + (c \div 4096), 128 + ((c \div 64) % 64), 128 + (c % 64)>>

\* unescape(encodeURIComponent(str)): one character per UTF-8 byte.
RECURSIVE utf8(_)
utf8(str) == IF str = <<>> THEN <<>> ELSE utf8Char(Head(str)) \o utf8(Tail(str))

\* btoa(binary) and atob(base64)
btoa(binary) == <<"base64", binary>>

atob(base64) == base64[2]

\* The elements of an array.
SetOf(seq) == {seq[k] : k \in DOMAIN seq}

\* a < b for strings, as Array.prototype.sort() compares them.
StrLess(a, b) ==
    \E k \in 1..(Min(Len(a), Len(b)) + 1) :
        /\ \A j \in 1..(k - 1) : a[j] = b[j]
        /\ IF k > Len(a) THEN k <= Len(b) ELSE k <= Len(b) /\ a[k] < b[k]

\* Array.from(set).sort()
RECURSIVE sort(_)
sort(S) ==
    IF S = {} THEN <<>>
    ELSE LET least == CHOOSE x \in S : \A y \in S \ {x} : StrLess(x, y)
         IN  <<least>> \o sort(S \ {least})

\* unescape(encodeURIComponent(JSON.stringify(index, null, 2))): the bytes
\* of the index file.  The dates are ASCII.
indexBytes(index) ==
    JSONstringify(
      [notebooks |-> [k \in DOMAIN index.notebooks |->
                        [index.notebooks[k] EXCEPT
                           !.id = utf8(@), !.title = utf8(@),
                           !.tags = [t \in DOMAIN @ |-> utf8(@[t])]]],
       tags |-> [t \in DOMAIN index.tags |-> utf8(index.tags[t])]])

\* new Date().toISOString().split('T')[0]
today(t) == <<"date", getTime(toISOString(t)) \div TicksPerDay>>

\* let index = { notebooks: [], tags: [] }
FreshIndex == [notebooks |-> <<>>, tags |-> <<>>]

\* The synchronous part of updateNotebookIndex, from "Find or create
\* notebook entry" to "Update tags list": the index it goes on to save.
updateNotebookIndex(index, id, title, tags, t) ==
    LET found == {k \in DOMAIN index.notebooks : index.notebooks[k].id = id}
        first == CHOOSE k \in found : \A j \in found : k <= j
        entries ==
            IF found # {}
            THEN [index.notebooks EXCEPT
                    ![first] = [@ EXCEPT !.title = title, !.tags = tags,
                                         !.updatedAt = today(t)]]
            ELSE Append(index.notebooks,
                        [id |-> id, title |-> title, tags |-> tags,
                         createdAt |-> today(t), updatedAt |-> today(t)])
    IN  [notebooks |-> entries,
         tags |-> sort(SetOf(index.tags) \cup SetOf(tags))]

\* toLowerCase() of an ASCII letter
toLowerCase(c) == IF c >= 65 /\ c <= 90 THEN c + 32 ELSE c

\* \w and \s of the regular expressions
IsWord(c) ==
    \/ c >= 48 /\ c <= 57
    \/ c >= 65 /\ c <= 90
    \/ c >= 97 /\ c <= 122
    \/ c = 95

IsSpace(c) == c \in {9, 10, 11, 12, 13, 32}

\* .replace(/\s+/g, '-')
RECURSIVE dashes(_)
dashes(str) ==
    IF str = <<>> THEN <<>>
    ELSE IF ~IsSpace(Head(str)) THEN <<Head(str)>> \o dashes(Tail(str))
    ELSE IF Len(str) >= 2 /\ IsSpace(str[2]) THEN dashes(Tail(str))
    ELSE <<45>> \o dashes(Tail(str))

\* The id createNotebook derives from a title.
slug(title) ==
    LET lower == [k \in DOMAIN title |-> toLowerCase(title[k])]
        kept == SelectSeq(lower, LAMBDA c : IsWord(c) \/ IsSpace(c) \/ c = 45)
    IN  slice(dashes(kept), SlugMax)

\* null and undefined
null == <<>>

\* The blob id GitHub reports for a file.
sha(file) == <<"sha", file>>

\* What a function call ends in: a returned value or a thrown Error.
Returned(value) == [threw |-> FALSE, value |-> value, message |-> <<>>]

Thrown(message) == [threw |-> TRUE, value |-> null, message |-> message]

\* The answers api.github.com can give to GET /contents/<path>.  The 404 body
\* is GitHub's {"message": "Not Found"}, or it cannot be read as JSON with a
\* message; the last answer stands for every other failure.
GetResponses(file) ==
    (IF file = NoFile
     THEN {[status |-> 404, message |-> <<"Not Found">>, body |-> null],
           [status |-> 404, message |-> <<>>, body |-> null]}
     ELSE {[status |-> 200, message |-> <<>>,
            body |-> [content |-> btoa(file), sha |-> sha(file)]]})
    \cup {[status |-> 500, message |-> <<"Server Error">>, body |-> null]}

\* The answers to PUT /contents/<path>: the file is written when the request
\* carries the blob id of the file there, or none when there is no file.
PutResponses(file, request) ==
    (IF request.sha = (IF file = NoFile THEN null ELSE sha(file))
     THEN {[status |-> 200, message |-> <<>>, body |-> null]}
     ELSE {[status |-> 409, message |-> <<"does not match">>, body |-> null]})
    \cup {[status |-> 500, message |-> <<"Server Error">>, body |-> null]}

\* apiRequest without its check of the token.
apiRequestUnchecked(token, response) ==
    IF response.status >= 200 /\ response.status < 300
    THEN Returned(response.body)
    ELSE Thrown(IF response.message # <<>> THEN response.message
                ELSE <<"GitHub API error: ", response.status>>)

\* apiRequest(endpoint, options), given the answer fetch would get.
apiRequest(token, response) ==
    IF token = NoItem THEN Thrown(<<"GitHub token not configured">>)
    ELSE IF response.status >= 200 /\ response.status < 300
    THEN Returned(response.body)
    ELSE Thrown(IF response.message # <<>> THEN response.message
                ELSE <<"GitHub API error: ", response.status>>)

\* e.message.includes('404'), over the messages apiRequest throws
includes404(message) == Len(message) = 2 /\ message[2] = 404

\* getFile(path)
getFile(token, response) ==
    LET r == apiRequest(token, response)
    IN  IF ~r.threw
        THEN Returned([content |-> atob(r.value.content), sha |-> r.value.sha])
        ELSE IF includes404(r.message) THEN Returned(null)
        ELSE r

\* saveFile's "Get current file SHA if it exists": sha after the try block.
currentSha(token, response) ==
    LET existing == getFile(token, response)
    IN  IF ~existing.threw /\ existing.value # null THEN existing.value.sha
        ELSE null

\* saveFile's PUT body, from the bytes unescape(encodeURIComponent(content))
putBody(bytes, fileSha) == [content |-> btoa(bytes), sha |-> fileSha]

\* JSON.parse(text) does not throw
parses(text) == text # <<>> /\ text[1] = "json"

\* updateNotebookIndex's try block: the index it starts from.
readIndex(token, response) ==
    LET existing == getFile(token, response)
    IN  IF ~existing.threw /\ existing.value # null
           /\ parses(existing.value.content)
        THEN JSONparse(existing.value.content)
        ELSE FreshIndex

\* notebooks/<id>.md and notebooks/_index.json
mdPath(id) == <<"notebooks/", id, ".md">>

indexPath == <<"notebooks/_index.json">>

\* The file at notebooks/<id>.md
MdFile(id) ==
    IF \E f \in remoteMd : f[1] = id
    THEN (CHOOSE f \in remoteMd : f[1] = id)[2]
    ELSE NoFile

\* The requests issued, with one more when apiRequest got as far as fetch.
Logged(method, path) ==
    IF tokenItem = NoItem THEN httpLog ELSE Append(httpLog, <<method, path>>)

\* Ids, titles and tag lists of the calls: a, c; "A", "é"; [], ["t"].
NotebookIds == {<<97>>, <<99>>}

NotebookTitles == {<<65>>, <<233>>}

TagLists == {<<>>, <<<<116>>>>}

\* Titles given to createNotebook: "A", "C é"
CreatedTitles == {<<65>>, <<67, 32, 233>>}

\* `# ${title}\n\nStart writing here...\n`, cut after the title
defaultContent(title) == <<35, 32>> \o title

\* The index after saveNotebook('a', .., 'A', []) and then
\* saveNotebook('b', .., 'é', ['t']) at clock 0.
EarlierIndex ==
    updateNotebookIndex(
        updateNotebookIndex(FreshIndex, <<97>>, <<65>>, <<>>, 0),
        <<98>>, <<233>>, <<<<116>>>>, 0)

\* The repository: empty, or left by those two saves, or with an index file
\* edited by hand into something JSON.parse rejects.
GhInit ==
    /\ WbIdle
    /\ EdIdle
    /\ AuthIdle
    /\ AppIdle
    /\ draftsStore = NoItem
    /\ recentStore = NoItem
    /\ tokenItem = <<"token">>
    /\ \/ remoteMd = {} /\ remoteIndex = NoFile
       \/ /\ remoteMd = {<<<<97>>, utf8(defaultContent(<<65>>))>>,
                         <<<<98>>, utf8(defaultContent(<<233>>))>>}
          /\ remoteIndex = indexBytes(EarlierIndex)
       \/ /\ remoteMd = {<<<<97>>, utf8(defaultContent(<<65>>))>>}
          /\ remoteIndex = <<"garbage">>
    /\ gh = NoCall
    /\ indexBefore = NoFile
    /\ httpLog = <<>>
    /\ now = 1
    /\ lastOp = PageLoaded
    /\ ops = 0

\* saveNotebook(id, content, title, tags) is entered: saveFile for the
\* markdown file begins.  One call runs at a time.
enterSaveNotebook(id, content, title, tags) ==
    /\ ops < MaxGhOps
    /\ gh.pc \in {"idle", "done", "failed"}
    /\ gh' = [pc |-> "mdGetFile", id |-> id, content |-> content,
              title |-> title, tags |-> tags, sha |-> null, index |-> FreshIndex,
              result |-> null]
    /\ indexBefore' = remoteIndex
    /\ httpLog' = <<>>
    /\ ops' = ops + 1
    /\ UNCHANGED <<notGh, tokenItem, remoteMd, remoteIndex, now>>

\* GitHub.saveNotebook(id, content, title, tags) is called.
SaveNotebook(id, content, title, tags) ==
    /\ enterSaveNotebook(id, content, title, tags)
    /\ lastOp' = Op("saveNotebook", id, content, title)

\* GitHub.createNotebook(title) is called, and calls saveNotebook.
CreateNotebook(title) ==
    /\ enterSaveNotebook(slug(title), defaultContent(title), title, <<>>)
    /\ lastOp' = Op("createNotebook", slug(title), defaultContent(title), title)

\* saveFile(notebooks/<id>.md): the getFile for the sha has answered.
MdGetFile ==
    \E response \in GetResponses(MdFile(gh.id)) :
        /\ gh.pc = "mdGetFile"
        /\ gh' = [gh EXCEPT !.pc = "mdPut", !.sha = currentSha(tokenItem, response)]
        /\ httpLog' = Logged("GET", mdPath(gh.id))
        /\ UNCHANGED <<notGh, tokenItem, remoteMd, remoteIndex, indexBefore, now,
                       lastOp, ops>>

\* `await saveFile(...)` that goes on although saveFile rejected.
awaitIgnoringRejection(r, next) == next

\* `await saveFile(...)` in saveNotebook and updateNotebookIndex: where the
\* call stands once saveFile has settled with r.
awaitSaveFile(r, next) == IF r.threw THEN "failed" ELSE next

\* saveFile(notebooks/<id>.md): the PUT has answered; a failure rejects
\* saveNotebook, a success goes on to updateNotebookIndex.
MdPut ==
    \E response \in PutResponses(MdFile(gh.id), putBody(utf8(gh.content), gh.sha)) :
        /\ gh.pc = "mdPut"
        /\ LET r == apiRequest(tokenItem, response)
           IN  /\ gh' = [gh EXCEPT !.pc = awaitSaveFile(r, "indexGetFile"),
                                 !.result = IF r.threw THEN r ELSE null]
               /\ remoteMd' = IF r.threw THEN remoteMd
                              ELSE {f \in remoteMd : f[1] # gh.id}
                                   \cup {<<gh.id, utf8(gh.content)>>}
        /\ httpLog' = Logged("PUT", mdPath(gh.id))
        /\ UNCHANGED <<notGh, tokenItem, remoteIndex, indexBefore, now, lastOp, ops>>

\* updateNotebookIndex: the getFile of the index has answered, and the entry
\* and the tags are updated in memory; saveFile for the index begins.
IndexGetFile ==
    \E response \in GetResponses(remoteIndex) :
        /\ gh.pc = "indexGetFile"
        /\ gh' = [gh EXCEPT
                    !.pc = "indexShaGetFile",
                    !.sha = null,
                    !.index = updateNotebookIndex(readIndex(tokenItem, response),
                                                  gh.id, gh.title, gh.tags, now)]
        /\ httpLog' = Logged("GET", indexPath)
        /\ UNCHANGED <<notGh, tokenItem, remoteMd, remoteIndex, indexBefore, now,
                       lastOp, ops>>

\* saveFile(notebooks/_index.json): the getFile for the sha has answered.
IndexShaGetFile ==
    \E response \in GetResponses(remoteIndex) :
        /\ gh.pc = "indexShaGetFile"
        /\ gh' = [gh EXCEPT !.pc = "indexPut", !.sha = currentSha(tokenItem, response)]
        /\ httpLog' = Logged("GET", indexPath)
        /\ UNCHANGED <<notGh, tokenItem, remoteMd, remoteIndex, indexBefore, now,
                       lastOp, ops>>

\* saveFile(notebooks/_index.json): the PUT has answered, and saveNotebook
\* resolves to true or rejects.
IndexPut ==
    \E response \in PutResponses(remoteIndex, putBody(indexBytes(gh.index), gh.sha)) :
        /\ gh.pc = "indexPut"
        /\ LET r == apiRequest(tokenItem, response)
           IN  /\ gh' = [gh EXCEPT !.pc = awaitSaveFile(r, "done"),
                                 !.result = IF r.threw THEN r ELSE Returned([boolean |-> TRUE])]
               /\ remoteIndex' = IF r.threw THEN remoteIndex
                                 ELSE atob(putBody(indexBytes(gh.index), gh.sha).content)
        /\ httpLog' = Logged("PUT", indexPath)
        /\ UNCHANGED <<notGh, tokenItem, remoteMd, indexBefore, now, lastOp, ops>>

\* GitHub.setToken(token), from the settings dialog
SetToken(token) ==
    /\ ops < MaxGhOps
    /\ tokenItem' = IF token # <<>> THEN token ELSE NoItem
    /\ lastOp' = Op("setToken", NoId, token, <<>>)
    /\ ops' = ops + 1
    /\ UNCHANGED <<notGh, remoteMd, remoteIndex, gh, indexBefore, httpLog, now>>

\* A day passes.
GhTick ==
    /\ now < MaxClock
    /\ now' = now + 1
    /\ UNCHANGED <<notGh, ghVars, lastOp, ops>>

GhNext ==
    \/ \E id \in NotebookIds, title \in NotebookTitles, tags \in TagLists :
           SaveNotebook(id, defaultContent(title), title, tags)
    \/ \E title \in CreatedTitles : CreateNotebook(title)
    \/ MdGetFile
    \/ MdPut
    \/ IndexGetFile
    \/ IndexShaGetFile
    \/ IndexPut
    \/ \E token \in {<<>>, <<"token">>} : SetToken(token)
    \/ GhTick

SpecGitHub == GhInit /\ [][GhNext]_vars

\* The entries of an index file, as its bytes spell them.
storedNotebooks(file) ==
    IF file # NoFile /\ parses(file) THEN JSONparse(file).notebooks ELSE <<>>

\* C8: when a saveNotebook / createNotebook call has succeeded, the index in
\* the repository has at most one entry per id; if the id was in the index
\* when the call began, its entry has the title and tags of the call and the
\* createdAt it had; if not, the index is the earlier one with exactly one
\* entry for the id appended.
IndexKeyedById ==
    gh.pc = "done" =>
      LET old == storedNotebooks(indexBefore)
          new == storedNotebooks(remoteIndex)
          id == utf8(gh.id)
      IN  /\ \A i, j \in DOMAIN new : i # j => new[i].id # new[j].id
          /\ IF \E k \in DOMAIN old : old[k].id = id
             THEN \A k \in DOMAIN old :
                    old[k].id = id =>
                      \E j \in DOMAIN new :
                          /\ new[j].id = id
                          /\ new[j].title = utf8(gh.title)
                          /\ new[j].tags = [t \in DOMAIN gh.tags |-> utf8(gh.tags[t])]
                          /\ new[j].createdAt = old[k].createdAt
             ELSE /\ Len(new) = Len(old) + 1
                  /\ new[Len(new)].id = id

\* C13: when a saveNotebook call has succeeded, every entry the index file
\* had under another id when the call began is in the index file as it was.
OtherEntriesKept ==
    gh.pc = "done" =>
      LET old == storedNotebooks(indexBefore)
          new == storedNotebooks(remoteIndex)
      IN  \A k \in DOMAIN old :
            old[k].id # utf8(gh.id) => \E j \in DOMAIN new : new[j] = old[k]

\* The requests of the call in flight that name the index file.
IndexRequests == {k \in DOMAIN httpLog : httpLog[k][2] = indexPath}

\* C14: a request for notebooks/_index.json is issued only after the PUT of
\* notebooks/<id>.md, and with that file in the repository as the call
\* wrote it; when the PUT of the markdown file fails the call ends there,
\* with no request for the index and none later; every id the index file
\* lists has a markdown file.
MarkdownBeforeIndex ==
    /\ [](\A k \in IndexRequests :
            /\ \E j \in 1..(k - 1) : httpLog[j] = <<"PUT", mdPath(gh.id)>>
            /\ MdFile(gh.id) = utf8(gh.content))
    /\ [][(gh.pc = "mdPut" /\ gh'.pc = "failed") =>
            /\ remoteMd' = remoteMd
            /\ remoteIndex' = remoteIndex
            /\ \A k \in DOMAIN httpLog' : httpLog'[k][2] # indexPath]_vars
    /\ [][(gh.pc = "failed" /\ gh'.pc = "failed") =>
            /\ httpLog' = httpLog
            /\ remoteIndex' = remoteIndex]_vars
    /\ [](\A k \in DOMAIN storedNotebooks(remoteIndex) :
            \E f \in remoteMd : utf8(f[1]) = storedNotebooks(remoteIndex)[k].id)

\* C14 witness: a call for a new id has succeeded after its five requests,
\* the index listing the id and the markdown file being there.
SavedNewNotebook ==
    /\ gh.pc = "done"
    /\ gh.id = <<99>>
    /\ Len(httpLog) = 5
    /\ httpLog[2] = <<"PUT", mdPath(gh.id)>>
    /\ IndexRequests = {3, 4, 5}
    /\ MdFile(gh.id) # NoFile
    /\ \E k \in DOMAIN storedNotebooks(remoteIndex) :
         storedNotebooks(remoteIndex)[k].id = utf8(gh.id)
    /\ \E k \in DOMAIN storedNotebooks(indexBefore) :
         storedNotebooks(indexBefore)[k].id # utf8(gh.id)

(***************************************************************************)
(* GitHub: the calls on single files, listFiles and testConnection         *)
(***************************************************************************)
\* A call of the module begins: its record, with nothing requested yet.
Call(pc, id) == [NoCall EXCEPT !.pc = pc, !.id = id]

\* The answers to DELETE /contents/<path>: the file is removed when the
\* request carries the blob id of the file there.
DeleteResponses(file, fileSha) ==
    (IF file # NoFile /\ fileSha = sha(file)
     THEN {[status |-> 200, message |-> <<>>, body |-> null]}
     ELSE {[status |-> 409, message |-> <<"does not match">>, body |-> null]})
    \cup {[status |-> 500, message |-> <<"Server Error">>, body |-> null]}

\* The answers to GET /contents/ of a directory and to GET /repos/<repo>.
PlainResponses(body) ==
    {[status |-> 200, message |-> <<>>, body |-> body],
     [status |-> 401, message |-> <<"Bad credentials">>, body |-> null],
     [status |-> 500, message |-> <<>>, body |-> null]}

\* The status and the message of an answer, as lastOp records them.
answer(response) == <<response.status, response.message>>

\* What a call that is one apiRequest has requested.
Requested(method, path) ==
    IF tokenItem = NoItem THEN <<>> ELSE <<<<method, path>>>>

\* isConfigured(): !!getToken()
isConfigured(token) == token # NoItem

\* deleteFile after `await getFile(path)`: the Error it throws, or none.
deleteFileCheck(existing) ==
    IF existing.threw THEN existing
    ELSE IF existing.value = null THEN Thrown(<<"File not found">>)
    ELSE Returned(existing.value.sha)

\* testConnection(): what it resolves to.
testConnection(r) ==
    IF r.threw THEN Returned([success |-> FALSE, error |-> r.message])
    ELSE Returned([success |-> TRUE, error |-> <<>>])

\* GitHub.getFile(notebooks/<id>.md), from the call to its result.
GetFile(id) ==
    \E response \in GetResponses(MdFile(id)) :
        /\ ops < MaxGhOps
        /\ gh.pc \in {"idle", "done", "failed"}
        /\ LET r == getFile(tokenItem, response)
           IN  gh' = [Call(IF r.threw THEN "failed" ELSE "done", id)
                        EXCEPT !.result = r]
        /\ httpLog' = Requested("GET", mdPath(id))
        /\ indexBefore' = remoteIndex
        /\ lastOp' = Op("getFile", id, answer(response), <<>>)
        /\ ops' = ops + 1
        /\ UNCHANGED <<notGh, tokenItem, remoteMd, remoteIndex, now>>

\* GitHub.deleteFile(notebooks/<id>.md) is called and awaits getFile.
DeleteFile(id) ==
    /\ ops < MaxGhOps
    /\ gh.pc \in {"idle", "done", "failed"}
    /\ gh' = Call("deleteGetFile", id)
    /\ httpLog' = <<>>
    /\ indexBefore' = remoteIndex
    /\ lastOp' = Op("deleteFile", id, <<>>, <<>>)
    /\ ops' = ops + 1
    /\ UNCHANGED <<notGh, tokenItem, remoteMd, remoteIndex, now>>

\* deleteFile: getFile has settled; the call fails or goes on to DELETE.
DeleteGetFile ==
    \E response \in GetResponses(MdFile(gh.id)) :
        /\ gh.pc = "deleteGetFile"
        /\ LET c == deleteFileCheck(getFile(tokenItem, response))
           IN  gh' = IF c.threw
                     THEN [gh EXCEPT !.pc = "failed", !.result = c]
                     ELSE [gh EXCEPT !.pc = "deleteSend", !.sha = c.value]
        /\ httpLog' = Logged("GET", mdPath(gh.id))
        /\ lastOp' = Op("deleteGetFile", gh.id, answer(response), <<>>)
        /\ UNCHANGED <<notGh, tokenItem, remoteMd, remoteIndex, indexBefore, now,
                       ops>>

\* deleteFile: the DELETE has answered.
DeleteSend ==
    \E response \in DeleteResponses(MdFile(gh.id), gh.sha) :
        /\ gh.pc = "deleteSend"
        /\ LET r == apiRequest(tokenItem, response)
           IN  /\ gh' = [gh EXCEPT !.pc = IF r.threw THEN "failed" ELSE "done",
                                   !.result = r]
               /\ remoteMd' = IF r.threw THEN remoteMd
                              ELSE {f \in remoteMd : f[1] # gh.id}
        /\ httpLog' = Logged("DELETE", mdPath(gh.id))
        /\ lastOp' = Op("deleteSend", gh.id, answer(response), <<>>)
        /\ UNCHANGED <<notGh, tokenItem, remoteIndex, indexBefore, now, ops>>

\* GitHub.listFiles('notebooks'), from the call to its result.
ListFiles ==
    \E response \in PlainResponses([entries |-> {mdPath(f[1]) : f \in remoteMd}]) :
        /\ ops < MaxGhOps
        /\ gh.pc \in {"idle", "done", "failed"}
        /\ LET r == apiRequest(tokenItem, response)
           IN  gh' = [Call(IF r.threw THEN "failed" ELSE "done", <<>>)
                        EXCEPT !.result = r]
        /\ httpLog' = Requested("GET", <<"notebooks">>)
        /\ indexBefore' = remoteIndex
        /\ lastOp' = Op("listFiles", NoId, answer(response), <<>>)
        /\ ops' = ops + 1
        /\ UNCHANGED <<notGh, tokenItem, remoteMd, remoteIndex, now>>

\* GitHub.testConnection(), from the call to its result.
TestConnection ==
    \E response \in PlainResponses([name |-> "Moleskine"]) :
        /\ ops < MaxGhOps
        /\ gh.pc \in {"idle", "done", "failed"}
        /\ gh' = [Call("done", <<>>)
                    EXCEPT !.result = testConnection(apiRequest(tokenItem, response))]
        /\ httpLog' = Requested("GET", <<"repo">>)
        /\ indexBefore' = remoteIndex
        /\ lastOp' = Op("testConnection", NoId, answer(response), <<>>)
        /\ ops' = ops + 1
        /\ UNCHANGED <<notGh, tokenItem, remoteMd, remoteIndex, now>>

GhApiNext ==
    \/ GhNext
    \/ \E id \in NotebookIds : GetFile(id)
    \/ \E id \in NotebookIds : DeleteFile(id)
    \/ DeleteGetFile
    \/ DeleteSend
    \/ ListFiles
    \/ TestConnection

SpecGitHubApi == GhInit /\ [][GhApiNext]_vars

\* C15: getFile resolves to null on every 404 answer and throws on every
\* other failed answer; deleteFile whose getFile was answered 404 fails with
\* 'File not found', and has issued no DELETE.
MissingFileIsNull ==
    /\ (lastOp.op = "getFile" /\ tokenItem # NoItem) =>
          /\ lastOp.content[1] = 404 => gh.result = Returned(null)
          /\ lastOp.content[1] \notin {200, 404} => gh.result.threw
    /\ (lastOp.op = "deleteGetFile" /\ tokenItem # NoItem
        /\ lastOp.content[1] = 404) =>
          /\ gh.pc = "failed"
          /\ gh.result = Thrown(<<"File not found">>)
          /\ \A k \in DOMAIN httpLog : httpLog[k][1] # "DELETE"

\* C16: while no token is stored isConfigured() is false, no step issues an
\* HTTP request or changes the repository, and every call that ends fails
\* with 'GitHub token not configured' (testConnection reports that message
\* with success false); setToken with an empty value leaves no token stored.
NoTokenNoTraffic ==
    /\ [](tokenItem = NoItem => ~isConfigured(tokenItem))
    /\ [][tokenItem = NoItem =>
            /\ httpLog' = httpLog \/ httpLog' = <<>>
            /\ remoteMd' = remoteMd
            /\ remoteIndex' = remoteIndex]_vars
    /\ [][(tokenItem = NoItem /\ gh' # gh /\ gh'.pc \in {"done", "failed"}) =>
            IF lastOp'.op = "testConnection"
            THEN gh'.result = Returned([success |-> FALSE,
                                        error |-> <<"GitHub token not configured">>])
            ELSE gh'.pc = "failed" /\ gh'.result = Thrown(<<"GitHub token not configured">>)]_vars
    /\ [][(lastOp'.op = "setToken" /\ lastOp' # lastOp /\ lastOp'.content = <<>>) =>
            tokenItem' = NoItem /\ ~isConfigured(tokenItem')]_vars

\* C16 witness: the token was removed by setToken(''), and a saveNotebook
\* made afterwards has failed without a request.
SaveFailedWithoutToken ==
    /\ tokenItem = NoItem
    /\ lastOp.op = "saveNotebook"
    /\ gh.pc = "failed"
    /\ gh.result = Thrown(<<"GitHub token not configured">>)
    /\ httpLog = <<>>
    /\ ops = 2

(***************************************************************************)
(* App: start-up and the reader                                            *)
(***************************************************************************)
\* Bound: clicks on the notebook list in one run.
MaxAppOps == 3

\* An entry of the served index, as far as App reads it.
Listed(id, title) == [id |-> <<id>>, title |-> <<title>>]

\* What the site may serve at notebooks/_index.json: nothing, an index
\* without a notebooks member, an empty list, a list with 'welcome' after
\* another notebook, a list without 'welcome'.
SiteIndexes ==
    {NoFile,
     [tags |-> <<>>],
     [tags |-> <<>>, notebooks |-> <<>>],
     [tags |-> <<>>, notebooks |-> <<Listed("notes", "Notes"), Listed("welcome", "Welcome")>>],
     [tags |-> <<>>, notebooks |-> <<Listed("notes", "Notes"), Listed("todo", "Todo")>>]}

\* The answers to fetch(url) for a served file: the file when there is one,
\* a response that is not ok otherwise, and a failure of the network.
FetchResponses(file) ==
    (IF file = NoFile
     THEN {[ok |-> FALSE, body |-> null]}
     ELSE {[ok |-> TRUE, body |-> file]})
    \cup {[ok |-> FALSE, body |-> null]}

\* loadNotebooks(), after its fetch: the new value of notebooks.
loadNotebooks(response) ==
    IF response.ok /\ "notebooks" \in DOMAIN response.body
    THEN response.body.notebooks
    ELSE <<>>

\* loadInitialContent(): the notebook it asks loadNotebook for, or the
\* placeholder.
loadInitialContent(list) ==
    IF \E k \in DOMAIN list : list[k].id = <<"welcome">>
    THEN [load |-> TRUE, id |-> <<"welcome">>]
    ELSE IF Len(list) > 0
    THEN [load |-> TRUE, id |-> list[1].id]
    ELSE [load |-> FALSE, id |-> NoId]

\* loadNotebook(id) up to its fetch: the fetches awaited afterwards, each
\* with the notebook object found in the list.
loadNotebook(list, id, pending) ==
    IF \E k \in DOMAIN list : list[k].id = id
    THEN pending (+) SetToBag({list[CHOOSE k \in DOMAIN list :
                                      /\ list[k].id = id
                                      /\ \A j \in 1..(k - 1) : list[j].id # id]})
    ELSE pending

\* The tab is on app.html after a login, and App.init has not run yet.
AppStart ==
    /\ WbIdle
    /\ EdIdle
    /\ GhIdle
    /\ draftsStore = NoItem
    /\ recentStore = NoItem
    /\ sessionItem = SessionTrue
    /\ hashItem = NoItem
    /\ page = "app"
    /\ navTo = "none"
    /\ appInitialised = FALSE
    /\ logins = EmptyBag
    /\ authorised = TRUE
    /\ siteIndex \in SiteIndexes
    /\ notebooks = <<>>
    /\ reader = <<"static">>
    /\ indexFetch = FALSE
    /\ mdFetches = EmptyBag
    /\ now = 1
    /\ lastOp = PageLoaded
    /\ ops = 0

\* App.init(), run once when the document is ready: loadNotebooks() starts
\* its fetch and returns a promise nobody awaits, Editor.init() and
\* Whiteboard.init() run, and loadInitialContent() reads notebooks.
AppInit ==
    /\ ~appInitialised
    /\ page = "app"
    /\ requireAuth(sessionItem)
    /\ appInitialised' = TRUE
    /\ indexFetch' = TRUE
    /\ textareaEl' = TRUE
    /\ LET drafts == getDrafts(draftsStore)
       IN  IF Len(drafts) > 0
           THEN /\ currentDraftId' = Keys(drafts)[MostRecent(drafts)]
                /\ textarea' = getDraft(draftsStore, currentDraftId').content
           ELSE UNCHANGED <<currentDraftId, textarea>>
    /\ LET s == saveState(history, historyIndex, pixels)
       IN  /\ history' = s.history
           /\ historyIndex' = s.historyIndex
    /\ canvas' = TRUE
    /\ LET first == loadInitialContent(notebooks)
       IN  IF first.load
           THEN /\ mdFetches' = loadNotebook(notebooks, first.id, mdFetches)
                /\ reader' = reader
           ELSE /\ mdFetches' = mdFetches
                /\ reader' = <<"placeholder">>
    /\ lastOp' = Op("appInit", NoId, <<>>, <<>>)
    /\ UNCHANGED <<draftsStore, recentStore, sessionItem, hashItem, page, navTo,
                   logins, authorised, ghVars, siteIndex, notebooks, now, ops,
                   pixels, nextPic, isDrawing, currentTool, pendingLoads,
                   autoSaveTimer, timers, nextTimerId, notification,
                   firedSinceInput, burstLen>>

\* The fetch of loadNotebooks() has settled and the rest of it runs.
IndexFetched ==
    \E response \in FetchResponses(siteIndex) :
        /\ indexFetch
        /\ indexFetch' = FALSE
        /\ notebooks' = loadNotebooks(response)
        /\ lastOp' = Op("loadNotebooks", NoId, <<>>, <<>>)
        /\ UNCHANGED <<wbVars, draftsStore, recentStore, edVars, authVars, ghVars,
                       siteIndex, reader, mdFetches, now, ops>>

\* A click on a link of the notebook list: loadNotebook(id).
ClickNotebook(id) ==
    /\ ops < MaxAppOps
    /\ appInitialised
    /\ \E k \in DOMAIN notebooks : notebooks[k].id = id
    /\ mdFetches' = loadNotebook(notebooks, id, mdFetches)
    /\ lastOp' = Op("click", id, <<>>, <<>>)
    /\ ops' = ops + 1
    /\ UNCHANGED <<wbVars, draftsStore, recentStore, edVars, authVars, ghVars,
                   siteIndex, notebooks, reader, indexFetch, now>>

\* The fetch of a loadNotebook(id) has settled: on success the notebook goes
\* to the recent list and into the reader, on failure nothing changes.
NotebookFetched ==
    \E notebook \in BagToSet(mdFetches), ok \in BOOLEAN :
        /\ mdFetches' = mdFetches (-) SetToBag({notebook})
        /\ recentStore' = IF ok THEN addToRecent(recentStore, notebook, now)
                          ELSE recentStore
        /\ reader' = IF ok THEN <<"notebook", notebook.id>> ELSE reader
        /\ lastOp' = Op(IF ok THEN "loaded" ELSE "loadFailed", notebook.id,
                        <<>>, notebook.title)
        /\ UNCHANGED <<wbVars, draftsStore, edVars, authVars, ghVars, siteIndex,
                       notebooks, indexFetch, now, ops>>

AppNext ==
    \/ AppInit
    \/ IndexFetched
    \/ \E id \in {<<"notes">>, <<"welcome">>, <<"todo">>} : ClickNotebook(id)
    \/ NotebookFetched

SpecApp == AppStart /\ [][AppNext]_vars

\* C12: once App.init has run and its fetches have settled, with no click
\* made, the reader shows 'welcome' when the loaded list has it, the first
\* listed notebook when the list has others only, and the placeholder only
\* when the list is empty.
StartupLoadsWelcome ==
    (appInitialised /\ ~indexFetch /\ mdFetches = EmptyBag /\ ops = 0) =>
        LET first == loadInitialContent(notebooks)
        IN  IF first.load
            THEN reader = <<"notebook", first.id>>
            ELSE reader = <<"placeholder">>

====
